---------------------------- MODULE Spec2Model ----------------------------
(***************************************************************************)
(* A model of xodo-linker (src/src/linker.rs): a single-threaded HTTP      *)
(* endpoint that checks a request against an origin restriction and a      *)
(* blacklist/whitelist of regular expressions, resolves the URL to a       *)
(* canonical file path under a templated base directory and hands the      *)
(* path to an external "open with" process.                                *)
(*                                                                         *)
(* Text is modelled as sequences of one-character strings, so that regex   *)
(* matching, placeholder substitution, path joining and canonicalization   *)
(* are computed character by character, as the code computes them.         *)
(* SystemConfig::run and open_file_with_dialog exist on Windows only       *)
(* (#[cfg(target_os = "windows")]), so paths and the file system are       *)
(* those of Windows.                                                       *)
(***************************************************************************)
EXTENDS Integers, Sequences, FiniteSets, TLC

(***************************************************************************)
(* Bounds of the model.                                                    *)
(***************************************************************************)
\* Connections that may wait in the listener while a request is handled.
MaxPending == 2
\* Longest blacklist / whitelist drawn for the pattern gate (SpecGate).
MaxPatterns == 2

(***************************************************************************)
(* Text literals of the program and of the modelled environment.           *)
(***************************************************************************)
\* {{home_dir}}
HomeToken ==
    <<"{", "{", "h", "o", "m", "e", "_", "d", "i", "r", "}", "}">>

\* \\?\
VerbatimPrefix ==
    <<"\\", "\\", "?", "\\">>

\* {{home_dir}}\OneDrive\ONEDRI~1
DefaultBasePath ==
    <<"{", "{", "h", "o", "m", "e", "_", "d", "i", "r", "}", "}", "\\", "O",
      "n", "e", "D", "r", "i", "v", "e", "\\", "O", "N", "E", "D", "R", "I",
      "~", "1">>

\* {{home_dir}}\Documents
DocumentsBasePath ==
    <<"{", "{", "h", "o", "m", "e", "_", "d", "i", "r", "}", "}", "\\", "D",
      "o", "c", "u", "m", "e", "n", "t", "s">>

\* C:\Users\tim\OneDrive\OneDrive - epfl.ch\test.pdf
ExpectedPath ==
    <<"C", ":", "\\", "U", "s", "e", "r", "s", "\\", "t", "i", "m", "\\",
      "O", "n", "e", "D", "r", "i", "v", "e", "\\", "O", "n", "e", "D", "r",
      "i", "v", "e", " ", "-", " ", "e", "p", "f", "l", ".", "c", "h", "\\",
      "t", "e", "s", "t", ".", "p", "d", "f">>

\* C:\Users\tim
HomeTim ==
    <<"C", ":", "\\", "U", "s", "e", "r", "s", "\\", "t", "i", "m">>

\* /favicon\.ico
SrcFavicon ==
    <<"/", "f", "a", "v", "i", "c", "o", "n", "\\", ".", "i", "c", "o">>

\* .*\.pdf
SrcPdf ==
    <<".", "*", "\\", ".", "p", "d", "f">>

\* ^/a/
SrcAnchored ==
    <<"^", "/", "a", "/">>

\* (\.pdf
SrcUnclosed ==
    <<"(", "\\", ".", "p", "d", "f">>

\* *\.pdf
SrcDangling ==
    <<"*", "\\", ".", "p", "d", "f">>

\* /test.pdf
UrlTest ==
    <<"/", "t", "e", "s", "t", ".", "p", "d", "f">>

\* /a/b.pdf
UrlNested ==
    <<"/", "a", "/", "b", ".", "p", "d", "f">>

\* /missing.pdf
UrlMissing ==
    <<"/", "m", "i", "s", "s", "i", "n", "g", ".", "p", "d", "f">>

\* /favicon.ico
UrlFavicon ==
    <<"/", "f", "a", "v", "i", "c", "o", "n", ".", "i", "c", "o">>

\* /favicon.ico.pdf
UrlFaviconPdf ==
    <<"/", "f", "a", "v", "i", "c", "o", "n", ".", "i", "c", "o", ".", "p",
      "d", "f">>

\* /../s.pdf
UrlUp ==
    <<"/", ".", ".", "/", "s", ".", "p", "d", "f">>

\* /../OneDrive/ONEDRI~1/test.pdf
UrlUpAlias ==
    <<"/", ".", ".", "/", "O", "n", "e", "D", "r", "i", "v", "e", "/", "O",
      "N", "E", "D", "R", "I", "~", "1", "/", "t", "e", "s", "t", ".", "p",
      "d", "f">>

\* /notes.txt
UrlText ==
    <<"/", "n", "o", "t", "e", "s", ".", "t", "x", "t">>

\* C:\Users\tim\OneDrive\OneDrive - epfl.ch\test.pdf
FileTest ==
    <<"C", ":", "\\", "U", "s", "e", "r", "s", "\\", "t", "i", "m", "\\",
      "O", "n", "e", "D", "r", "i", "v", "e", "\\", "O", "n", "e", "D", "r",
      "i", "v", "e", " ", "-", " ", "e", "p", "f", "l", ".", "c", "h", "\\",
      "t", "e", "s", "t", ".", "p", "d", "f">>

\* C:\Users\tim\OneDrive\OneDrive - epfl.ch\a\b.pdf
FileNested ==
    <<"C", ":", "\\", "U", "s", "e", "r", "s", "\\", "t", "i", "m", "\\",
      "O", "n", "e", "D", "r", "i", "v", "e", "\\", "O", "n", "e", "D", "r",
      "i", "v", "e", " ", "-", " ", "e", "p", "f", "l", ".", "c", "h", "\\",
      "a", "\\", "b", ".", "p", "d", "f">>

\* C:\Users\tim\OneDrive\s.pdf
FileAbove ==
    <<"C", ":", "\\", "U", "s", "e", "r", "s", "\\", "t", "i", "m", "\\",
      "O", "n", "e", "D", "r", "i", "v", "e", "\\", "s", ".", "p", "d",
      "f">>

\* C:\Users\tim\Documents\d.pdf
FileDoc ==
    <<"C", ":", "\\", "U", "s", "e", "r", "s", "\\", "t", "i", "m", "\\",
      "D", "o", "c", "u", "m", "e", "n", "t", "s", "\\", "d", ".", "p", "d",
      "f">>

\* C:\Users\tim\OneDrive
DirOneDrive ==
    <<"C", ":", "\\", "U", "s", "e", "r", "s", "\\", "t", "i", "m", "\\",
      "O", "n", "e", "D", "r", "i", "v", "e">>

\* ONEDRI~1
ShortOneDrive ==
    <<"O", "N", "E", "D", "R", "I", "~", "1">>

\* OneDrive - epfl.ch
LongOneDrive ==
    <<"O", "n", "e", "D", "r", "i", "v", "e", " ", "-", " ", "e", "p", "f",
      "l", ".", "c", "h">>
(***************************************************************************)
(* Text operations the code uses.                                          *)
(***************************************************************************)
StartsWithAt(s, p, i) ==
    /\ i + Len(p) - 1 <= Len(s)
    /\ \A k \in 1..Len(p) : s[i + k - 1] = p[k]

\* str::starts_with
starts_with(s, p) == StartsWithAt(s, p, 1)

Drop(s, n) == SubSeq(s, n + 1, Len(s))

\* str::replace: every occurrence, left to right, without overlap.
RECURSIVE replace(_, _, _)
replace(s, from, to) ==
    IF s = <<>> THEN <<>>
    ELSE IF starts_with(s, from)
         THEN to \o replace(Drop(s, Len(from)), from, to)
         ELSE <<Head(s)>> \o replace(Tail(s), from, to)

\* str::replacen(.., 1): the first occurrence only.
RECURSIVE replacen_first(_, _, _)
replacen_first(s, from, to) ==
    IF s = <<>> THEN <<>>
    ELSE IF starts_with(s, from)
         THEN to \o Drop(s, Len(from))
         ELSE <<Head(s)>> \o replacen_first(Tail(s), from, to)

\* Substring::substring(start, end): characters start..end-1 (0-based), clamped.
substring(s, start, end) ==
    LET e == IF end > Len(s) THEN Len(s) ELSE end
    IN  IF start >= e THEN <<>> ELSE SubSeq(s, start + 1, e)

(***************************************************************************)
(* Regular expressions (regex::Regex), over the part of the syntax the     *)
(* configured patterns use: literal characters, \c escapes, '.', a         *)
(* trailing '*' on an atom, '^' and '$'.  A compiled expression is a       *)
(* sequence of atoms; is_match is an unanchored search, as in the crate.   *)
(* The texts matched hold no line break, so '.' matches every character.   *)
(***************************************************************************)
Lit(c) == [k |-> "lit", c |-> c, star |-> FALSE]
AnyChar == [k |-> "any", c |-> "", star |-> FALSE]
Bol == [k |-> "bol", c |-> "", star |-> FALSE]
Eol == [k |-> "eol", c |-> "", star |-> FALSE]

RegexError == [ok |-> FALSE, atoms |-> <<>>]

\* Regex::new: the atoms of a pattern source, or an error for a repetition
\* with nothing to repeat, a dangling escape, or an unbalanced parenthesis
\* (the pattern sources of the model hold no balanced group).
RECURSIVE ParseRegex(_, _)
ParseRegex(src, acc) ==
    IF src = <<>> THEN [ok |-> TRUE, atoms |-> acc]
    ELSE LET c == Head(src) IN
         CASE c = "\\" ->
                IF Len(src) < 2 THEN RegexError
                ELSE ParseRegex(Drop(src, 2), Append(acc, Lit(src[2])))
           [] c = "." -> ParseRegex(Tail(src), Append(acc, AnyChar))
           [] c = "^" -> ParseRegex(Tail(src), Append(acc, Bol))
           [] c = "$" -> ParseRegex(Tail(src), Append(acc, Eol))
           [] c = "*" ->
                IF acc = <<>> THEN RegexError
                ELSE ParseRegex(Tail(src),
                                [acc EXCEPT ![Len(acc)].star = TRUE])
           [] c \in {"(", ")"} -> RegexError
           [] OTHER -> ParseRegex(Tail(src), Append(acc, Lit(c)))

Regex_new(src) == ParseRegex(src, <<>>)

AtomMatches(a, ch) ==
    \/ a.k = "any"
    \/ a.k = "lit" /\ a.c = ch

\* Whether atoms i.. of re match a prefix of s starting at position j.
RECURSIVE MatchHere(_, _, _, _)
MatchHere(re, i, s, j) ==
    IF i > Len(re) THEN TRUE
    ELSE LET a == re[i] IN
         IF a.k = "bol" THEN j = 1 /\ MatchHere(re, i + 1, s, j)
         ELSE IF a.k = "eol" THEN j = Len(s) + 1 /\ MatchHere(re, i + 1, s, j)
         ELSE IF a.star
              THEN \/ MatchHere(re, i + 1, s, j)
                   \/ /\ j <= Len(s)
                      /\ AtomMatches(a, s[j])
                      /\ MatchHere(re, i, s, j + 1)
              ELSE /\ j <= Len(s)
                   /\ AtomMatches(a, s[j])
                   /\ MatchHere(re, i + 1, s, j + 1)

\* Regex::is_match: the expression matches somewhere in the text.
is_match(re, s) == \E j \in 1..(Len(s) + 1) : MatchHere(re, 1, s, j)

(***************************************************************************)
(* Requests.  remote_addr is an Option: <<>> is None, <<ip>> is Some(ip),  *)
(* ip the four octets of an IPv4 address.                                  *)
(***************************************************************************)
LoopbackIp == <<127, 0, 0, 1>>
LanIp == <<192, 168, 1, 7>>

RemoteAddrs == {<<>>, <<LoopbackIp>>, <<LanIp>>}

\* IpAddr::is_loopback for IPv4: 127.0.0.0/8.
is_loopback(ip) == ip[1] = 127

Urls ==
    {UrlTest, UrlNested, UrlMissing, UrlFavicon, UrlFaviconPdf, UrlUp,
     UrlUpAlias, UrlText}

Requests == [url : Urls, remote_addr : RemoteAddrs]

(***************************************************************************)
(* SecurityConfig: the origin check and the blacklist/whitelist check.     *)
(***************************************************************************)
\* list.iter().fold(false, |acc, r| r.is_match(path) || acc)
RECURSIVE fold_matches(_, _, _)
fold_matches(list, path, acc) ==
    IF list = <<>> THEN acc
    ELSE fold_matches(Tail(list), path, is_match(Head(list), path) \/ acc)

\* The fold with '|| acc' left out: only the last pattern counts.
matches_list_last_only(list, path) ==
    IF list = <<>> THEN FALSE ELSE is_match(list[Len(list)], path)

matches_list(list, path) == fold_matches(list, path, FALSE)

matches_blacklist(sec, path) == matches_list(sec.blacklist, path)

matches_whitelist(sec, path) == matches_list(sec.whitelist, path)

\* unwrap_or(true): a request without a remote address passes.
allow_force_loopback_none_passes(sec, request) ==
    IF sec.force_loopback
    THEN IF request.remote_addr = <<>> THEN TRUE
         ELSE is_loopback(request.remote_addr[1])
    ELSE TRUE

allow_force_loopback(sec, request) ==
    IF sec.force_loopback
    THEN IF request.remote_addr = <<>> THEN FALSE
         ELSE is_loopback(request.remote_addr[1])
    ELSE TRUE

allow_black_and_white_list(sec, request) ==
    LET url == request.url IN
    IF matches_blacklist(sec, url)
    THEN IF matches_whitelist(sec, url) THEN TRUE ELSE FALSE
    ELSE TRUE

SecurityConfig_allow_request(sec, request) ==
    LET checks == <<allow_force_loopback(sec, request),
                    allow_black_and_white_list(sec, request)>>
    IN  \A n \in 1..Len(checks) : checks[n] = TRUE

(***************************************************************************)
(* The file system the server runs on: the files that exist (a directory   *)
(* exists when a file lies under it) and the short (8.3) names of          *)
(* directory entries, which canonicalization replaces by the long names.   *)
(***************************************************************************)
Separators == {"\\", "/"}

\* The components of a path; both separators count, empty components drop.
RECURSIVE SplitFrom(_, _, _)
SplitFrom(s, cur, acc) ==
    IF s = <<>> THEN (IF cur = <<>> THEN acc ELSE Append(acc, cur))
    ELSE IF Head(s) \in Separators
         THEN SplitFrom(Tail(s), <<>>,
                        IF cur = <<>> THEN acc ELSE Append(acc, cur))
         ELSE SplitFrom(Tail(s), Append(cur, Head(s)), acc)

Components(s) == SplitFrom(s, <<>>, <<>>)

RECURSIVE JoinComponents(_)
JoinComponents(segs) ==
    IF segs = <<>> THEN <<>>
    ELSE IF Len(segs) = 1 THEN Head(segs)
    ELSE Head(segs) \o <<"\\">> \o JoinComponents(Tail(segs))

IsPrefix(p, s) == Len(p) <= Len(s) /\ SubSeq(s, 1, Len(p)) = p

Files == {FileTest, FileNested, FileAbove, FileDoc}

ShortNames ==
    {[dir |-> Components(DirOneDrive), short |-> ShortOneDrive,
      long |-> LongOneDrive]}

Exists(segs) == \E f \in Files : IsPrefix(segs, Components(f))

LongName(dir, seg) ==
    IF \E a \in ShortNames : a.dir = dir /\ a.short = seg
    THEN (CHOOSE a \in ShortNames : a.dir = dir /\ a.short = seg).long
    ELSE seg

\* The components left once '.' and '..' are resolved (never above the
\* drive) and short names are replaced by long ones.
RECURSIVE Normalize(_, _)
Normalize(segs, cur) ==
    IF segs = <<>> THEN cur
    ELSE LET seg == Head(segs) IN
         IF seg = <<".">> THEN Normalize(Tail(segs), cur)
         ELSE IF seg = <<".", ".">>
              THEN Normalize(Tail(segs),
                             IF Len(cur) > 1
                             THEN SubSeq(cur, 1, Len(cur) - 1) ELSE cur)
              ELSE Normalize(Tail(segs), Append(cur, LongName(cur, seg)))

\* std::fs::canonicalize: the verbatim (\\?\) absolute path of an existing
\* file or directory, or an error.
canonicalize(path) ==
    LET segs == Normalize(Components(path), <<>>) IN
    IF Exists(segs)
    THEN [ok |-> TRUE, path |-> VerbatimPrefix \o JoinComponents(segs)]
    ELSE [ok |-> FALSE, path |-> <<>>]

\* Path::join: a rooted right-hand side replaces everything but the drive
\* of the left-hand side; otherwise it is appended after a separator.
DriveOf(base) ==
    IF Len(base) >= 2 /\ base[2] = ":" THEN SubSeq(base, 1, 2) ELSE <<>>

Path_join(base, rel) ==
    IF rel # <<>> /\ Head(rel) \in Separators THEN DriveOf(base) \o rel
    ELSE IF base = <<>> \/ base[Len(base)] \in Separators THEN base \o rel
    ELSE base \o <<"\\">> \o rel

(***************************************************************************)
(* dirs::home_dir(): None, a path that is not UTF-8, or a path.            *)
(***************************************************************************)
NoHome == [found |-> FALSE, utf8 |-> FALSE, path |-> <<>>]
OpaqueHome == [found |-> TRUE, utf8 |-> FALSE, path |-> <<>>]
TimHome == [found |-> TRUE, utf8 |-> TRUE, path |-> HomeTim]

Homes == {NoHome, OpaqueHome, TimHome}

(***************************************************************************)
(* SystemConfig::get_absolute_pdf_path.  A Result is a record: ok, the     *)
(* path when ok, the error text otherwise.  The files of the model have    *)
(* UTF-8 names, so to_str() of the canonical path never fails.             *)
(***************************************************************************)
Ok(path) == [ok |-> TRUE, path |-> path, err |-> ""]
Err(msg) == [ok |-> FALSE, path |-> <<>>, err |-> msg]

\* base_path.replace("{{home_dir}}", home) joined with the request path
\* less its first character.
JoinedPath(sys, requested_path, h) ==
    Path_join(replace(sys.base_path, HomeToken, h.path),
              substring(requested_path, 1, Len(requested_path)))

\* The error of canonicalize dropped: the joined path is returned as it is.
get_absolute_pdf_path_unchecked(sys, requested_path, h) ==
    IF ~h.found THEN Err("did not find home dir")
    ELSE IF ~h.utf8 THEN Err("could not resolve home")
    ELSE LET file_path == canonicalize(JoinedPath(sys, requested_path, h)) IN
         IF ~file_path.ok THEN Ok(JoinedPath(sys, requested_path, h))
         ELSE IF starts_with(file_path.path, VerbatimPrefix)
              THEN Ok(replacen_first(file_path.path, VerbatimPrefix, <<>>))
              ELSE Ok(file_path.path)

get_absolute_pdf_path(sys, requested_path, h) ==
    IF ~h.found THEN Err("did not find home dir")
    ELSE IF ~h.utf8 THEN Err("could not resolve home")
    ELSE LET file_path == canonicalize(JoinedPath(sys, requested_path, h)) IN
         IF ~file_path.ok THEN Err("Could not canonicalize")
         ELSE IF starts_with(file_path.path, VerbatimPrefix)
              THEN Ok(replacen_first(file_path.path, VerbatimPrefix, <<>>))
              ELSE Ok(file_path.path)

(***************************************************************************)
(* Configuration.  An Option is a sequence: <<>> is None, <<v>> Some(v).   *)
(***************************************************************************)
\* The largest u16, the type of ServerConfig.port.
U16Max == 65535

SystemConfig_default ==
    [hostname |-> "xodo", base_path |-> DefaultBasePath]

ServerConfig_default ==
    [port |-> 80, addr |-> "0.0.0.0", close_tab |-> TRUE]

SecurityConfig_default ==
    [force_loopback |-> TRUE,
     blacklist |-> <<Regex_new(SrcFavicon).atoms>>,
     whitelist |-> <<Regex_new(SrcPdf).atoms>>]

\* #[derive(Default)] on Linker: the default of each section.
Linker_default ==
    [security |-> SecurityConfig_default,
     server |-> ServerConfig_default,
     system |-> SystemConfig_default]

(***************************************************************************)
(* The configuration file: whether it can be opened, whether it is YAML,   *)
(* and its document.  A section has a 'present' flag and one Option per    *)
(* key; a pattern is its source text.                                      *)
(***************************************************************************)
AllCompile(srcs) == \A n \in 1..Len(srcs) : Regex_new(srcs[n]).ok

CompileAll(srcs) == [n \in 1..Len(srcs) |-> Regex_new(srcs[n]).atoms]

\* Deserialize for SecurityConfig (serde_regex compiles each pattern).
SecurityConfig_deserialize(sec) ==
    IF /\ sec.present
       /\ sec.force_loopback # <<>>
       /\ sec.blacklist # <<>>
       /\ sec.whitelist # <<>>
       /\ AllCompile(sec.blacklist[1])
       /\ AllCompile(sec.whitelist[1])
    THEN [ok |-> TRUE,
          value |-> [force_loopback |-> sec.force_loopback[1],
                     blacklist |-> CompileAll(sec.blacklist[1]),
                     whitelist |-> CompileAll(sec.whitelist[1])]]
    ELSE [ok |-> FALSE, value |-> SecurityConfig_default]

\* Deserialize for ServerConfig: every key is required, port is a u16.
ServerConfig_deserialize(srv) ==
    IF /\ srv.present
       /\ srv.port # <<>>
       /\ srv.addr # <<>>
       /\ srv.close_tab # <<>>
       /\ srv.port[1] \in 0..U16Max
    THEN [ok |-> TRUE,
          value |-> [port |-> srv.port[1], addr |-> srv.addr[1],
                     close_tab |-> srv.close_tab[1]]]
    ELSE [ok |-> FALSE, value |-> ServerConfig_default]

\* Deserialize for SystemConfig.
SystemConfig_deserialize(sys) ==
    IF sys.present /\ sys.hostname # <<>> /\ sys.base_path # <<>>
    THEN [ok |-> TRUE,
          value |-> [hostname |-> sys.hostname[1],
                     base_path |-> sys.base_path[1]]]
    ELSE [ok |-> FALSE, value |-> SystemConfig_default]

\* As if every section were #[serde(default)]: a section that does not
\* deserialize is replaced by its default.
from_reader_section_defaults(file) ==
    [ok |-> file.yaml_ok,
     value |-> [security |-> SecurityConfig_deserialize(file.doc.security).value,
                server |-> ServerConfig_deserialize(file.doc.server).value,
                system |-> SystemConfig_deserialize(file.doc.system).value]]

\* serde_yaml::from_reader::<Linker>: an error unless the text is YAML and
\* every section deserializes (no field of Linker has a serde default).
from_reader(file) ==
    LET sec == SecurityConfig_deserialize(file.doc.security)
        srv == ServerConfig_deserialize(file.doc.server)
        sys == SystemConfig_deserialize(file.doc.system)
    IN  IF file.yaml_ok /\ sec.ok /\ srv.ok /\ sys.ok
        THEN [ok |-> TRUE,
              value |-> [security |-> sec.value, server |-> srv.value,
                         system |-> sys.value]]
        ELSE [ok |-> FALSE, value |-> Linker_default]

\* Linker::read_config
read_config(file) ==
    IF file.exists
    THEN LET parsed == from_reader(file) IN
         IF parsed.ok THEN parsed.value ELSE Linker_default
    ELSE Linker_default

\* The documents the model reads: a complete one, and variations of it.
DocA ==
    [security |-> [present |-> TRUE, force_loopback |-> <<FALSE>>,
                   blacklist |-> << <<SrcFavicon>> >>,
                   whitelist |-> << <<SrcPdf>> >>],
     server |-> [present |-> TRUE, port |-> <<8080>>,
                 addr |-> <<"127.0.0.1">>, close_tab |-> <<FALSE>>],
     system |-> [present |-> TRUE, hostname |-> <<"pdf">>,
                 base_path |-> <<DocumentsBasePath>>]]

DocB ==
    [DocA EXCEPT !.security.force_loopback = <<TRUE>>,
                 !.security.blacklist = << <<>> >>,
                 !.security.whitelist = << <<>> >>,
                 !.server.close_tab = <<TRUE>>,
                 !.system.base_path = <<DefaultBasePath>>]

DocC ==
    [DocA EXCEPT !.security.blacklist = << <<SrcPdf>> >>,
                 !.security.whitelist = << <<SrcAnchored>> >>,
                 !.system.base_path = <<DefaultBasePath>>]

\* No document: a file that cannot be opened or is not YAML holds none.
EmptyDoc ==
    [security |-> [present |-> FALSE, force_loopback |-> <<>>,
                   blacklist |-> <<>>, whitelist |-> <<>>],
     server |-> [present |-> FALSE, port |-> <<>>, addr |-> <<>>,
                 close_tab |-> <<>>],
     system |-> [present |-> FALSE, hostname |-> <<>>, base_path |-> <<>>]]

ValidDocs == {DocA, DocB, DocC}

BrokenDocs ==
    {EmptyDoc,
     [DocA EXCEPT !.security.present = FALSE],
     [DocA EXCEPT !.server.present = FALSE],
     [DocA EXCEPT !.system.present = FALSE],
     [DocA EXCEPT !.security.force_loopback = <<>>],
     [DocA EXCEPT !.security.whitelist = <<>>],
     [DocA EXCEPT !.server.close_tab = <<>>],
     [DocA EXCEPT !.server.port = <<70000>>],
     [DocA EXCEPT !.system.base_path = <<>>],
     [DocA EXCEPT !.security.blacklist = << <<SrcFavicon, SrcUnclosed>> >>],
     [DocA EXCEPT !.security.whitelist = << <<SrcDangling>> >>]}

MissingFile == [exists |-> FALSE, yaml_ok |-> FALSE, doc |-> EmptyDoc]
GarbledFile == [exists |-> TRUE, yaml_ok |-> FALSE, doc |-> EmptyDoc]

ConfigFiles ==
    {MissingFile, GarbledFile}
        \cup {[exists |-> TRUE, yaml_ok |-> TRUE, doc |-> d] :
                d \in ValidDocs \cup BrokenDocs}

(***************************************************************************)
(* ServerConfig::handle_request: the response for an outcome.              *)
(***************************************************************************)
\* Response::from_string: status 200, a text/plain body.
Response_from_string(body) ==
    [status |-> 200, body |-> body,
     content_type |-> "text/plain; charset=UTF-8"]

\* Option::unwrap_or
unwrap_or(opt, dflt) == IF opt = <<>> THEN dflt ELSE opt[1]

\* with_status_code(401) left out.
ServerConfig_response_no_401(srv, allowed, succeeded) ==
    IF allowed
    THEN IF unwrap_or(succeeded, FALSE)
         THEN IF srv.close_tab
              THEN [Response_from_string(
                        "<script>window.close()</script>tab should close now")
                    EXCEPT !.content_type = "text/html"]
              ELSE Response_from_string("ok")
         ELSE Response_from_string("failed to start. check logs")
    ELSE Response_from_string("does not comply")

ServerConfig_response(srv, allowed, succeeded) ==
    IF allowed
    THEN IF unwrap_or(succeeded, FALSE)
         THEN IF srv.close_tab
              THEN [Response_from_string(
                        "<script>window.close()</script>tab should close now")
                    EXCEPT !.content_type = "text/html"]
              ELSE Response_from_string("ok")
         ELSE Response_from_string("failed to start. check logs")
    ELSE [Response_from_string("does not comply") EXCEPT !.status = 401]

\* Linker::allow_request
Linker_allow_request(c, request) ==
    SecurityConfig_allow_request(c.security, request)

(***************************************************************************)
(* The server process.                                                     *)
(***************************************************************************)
VARIABLES
    cfgFile,      \* the configuration file read at startup
    cfg,          \* the Linker read_config returned
    home,         \* what dirs::home_dir() returns
    pc,           \* where the (only) thread is
    pending,      \* connections waiting in the listener
    inFlight,     \* requests taken from the listener and not yet answered
    req,          \* the request being handled
    is_allowed,   \* Linker::handle_request's is_allowed
    did_succeed,  \* Linker::handle_request's did_succeed (an Option)
    resolved,     \* the Result of get_absolute_pdf_path for this request
    opened,       \* the paths handed to the external process for it
    response,     \* the response built for it
    sent,         \* "none", "sent", or "send_failed" (respond returned Err)
    panic         \* the place a panic ended the process at, or ""

vars ==
    <<cfgFile, cfg, home, pc, pending, inFlight, req, is_allowed,
      did_succeed, resolved, opened, response, sent, panic>>

NoRequest == [url |-> <<>>, remote_addr |-> <<>>]
NoResult == [ok |-> FALSE, path |-> <<>>, err |-> "not called"]
NoResponse == [status |-> 0, body |-> "", content_type |-> ""]

\* Where the pipeline of one request ends before the response is built.
Terminal == {"Rejected", "ResolveFailed", "OpenFailed", "OpenSucceeded"}

\* How the external process can end: it cannot be spawned, it exits with
\* zero, or with another code and a stderr that is or is not UTF-8.
OpenOutcomes ==
    {"spawn_failed", "exit_zero", "exit_nonzero", "exit_nonzero_raw_stderr"}

Idle ==
    /\ pending = 0
    /\ inFlight = 0
    /\ req = NoRequest
    /\ is_allowed = FALSE
    /\ did_succeed = <<>>
    /\ resolved = NoResult
    /\ opened = <<>>
    /\ response = NoResponse
    /\ sent = "none"
    /\ panic = ""

\* The process after Linker::read_config, about to call Linker::start.
Init ==
    /\ cfgFile \in ConfigFiles
    /\ cfg = read_config(cfgFile)
    /\ home \in Homes
    /\ pc = "get_server"
    /\ Idle

\* Linker::start: bind the listener; expect() ends the process on failure.
GetServer ==
    /\ pc = "get_server"
    /\ \E bound \in BOOLEAN :
         IF bound
         THEN pc' = "listening" /\ panic' = panic
         ELSE pc' = "panicked" /\ panic' = "get_server_expect"
    /\ UNCHANGED <<cfgFile, cfg, home, pending, inFlight, req, is_allowed,
                   did_succeed, resolved, opened, response, sent>>

\* A client connects while the listener is bound.  Only the number of
\* waiting connections is kept: what a connection asks for shows when the
\* loop takes it.
Arrive ==
    /\ pc \notin {"get_server", "panicked"}
    /\ pending < MaxPending
    /\ pending' = pending + 1
    /\ UNCHANGED <<cfgFile, cfg, home, pc, inFlight, req, is_allowed,
                   did_succeed, resolved, opened, response, sent, panic>>

\* A loop that takes the next request wherever the thread is.
AtLoopHead_anywhere == TRUE

\* The for loop of Linker::start is at incoming_requests().next(): before
\* the first request, or after handle_request returned.
AtLoopHead == pc \in {"listening", "ResponseSent"}

\* The loop takes the next request from the listener.
Accept ==
    /\ AtLoopHead
    /\ pending > 0
    /\ \E r \in Requests : req' = r
    /\ pending' = pending - 1
    /\ inFlight' = inFlight + 1
    /\ pc' = "Received"
    /\ is_allowed' = FALSE
    /\ did_succeed' = <<>>
    /\ resolved' = NoResult
    /\ opened' = <<>>
    /\ response' = NoResponse
    /\ sent' = "none"
    /\ UNCHANGED <<cfgFile, cfg, home, panic>>

\* run called whatever the security checks said.
AfterSecurityChecks_always_run(allowed) == "Resolving"

\* Linker::handle_request: run is called for an allowed request only.
AfterSecurityChecks(allowed) == IF allowed THEN "Resolving" ELSE "Rejected"

\* Linker::handle_request, the security checks.
Authorize ==
    /\ pc = "Received"
    /\ is_allowed' = Linker_allow_request(cfg, req)
    /\ pc' = AfterSecurityChecks(is_allowed')
    /\ UNCHANGED <<cfgFile, cfg, home, pending, inFlight, req, did_succeed,
                   resolved, opened, response, sent, panic>>

\* SystemConfig::run, the call of get_absolute_pdf_path; '?' returns the
\* error, which handle_request turns into Some(false).
Resolve ==
    /\ pc = "Resolving"
    /\ resolved' = get_absolute_pdf_path(cfg.system, req.url, home)
    /\ IF resolved'.ok
       THEN pc' = "Resolved" /\ did_succeed' = did_succeed
       ELSE pc' = "ResolveFailed" /\ did_succeed' = <<FALSE>>
    /\ UNCHANGED <<cfgFile, cfg, home, pending, inFlight, req, is_allowed,
                   opened, response, sent, panic>>

\* SystemConfig::run, the assert_eq! on the resolved path.
run_assert_eq(path_to_file) == path_to_file = ExpectedPath

AssertEq ==
    /\ pc = "Resolved"
    /\ IF run_assert_eq(resolved.path)
       THEN pc' = "Opening" /\ panic' = panic
       ELSE pc' = "panicked" /\ panic' = "assert_eq"
    /\ UNCHANGED <<cfgFile, cfg, home, pending, inFlight, req, is_allowed,
                   did_succeed, resolved, opened, response, sent>>

\* SystemConfig::open_file_with_dialog: the Result for an outcome of the
\* external process ("panic" where String::from_utf8(..).unwrap() panics).
open_file_with_dialog(outcome) ==
    CASE outcome = "spawn_failed" -> "Err"
      [] outcome = "exit_zero" -> "Ok"
      [] outcome = "exit_nonzero" -> "Err"
      [] outcome = "exit_nonzero_raw_stderr" -> "panic"

\* SystemConfig::run, the blocking call of the external process.
Open ==
    /\ pc = "Opening"
    /\ opened' = Append(opened, resolved.path)
    /\ \E outcome \in OpenOutcomes :
         LET result == open_file_with_dialog(outcome) IN
         CASE result = "Ok" ->
                pc' = "OpenSucceeded" /\ did_succeed' = <<TRUE>>
                /\ panic' = panic
           [] result = "Err" ->
                pc' = "OpenFailed" /\ did_succeed' = <<FALSE>>
                /\ panic' = panic
           [] result = "panic" ->
                pc' = "panicked" /\ did_succeed' = did_succeed
                /\ panic' = "stderr_unwrap"
    /\ UNCHANGED <<cfgFile, cfg, home, pending, inFlight, req, is_allowed,
                   resolved, response, sent>>

\* ServerConfig::handle_request: build the response and send it; an error
\* of respond is printed and dropped.
Respond ==
    /\ pc \in Terminal
    /\ response' = ServerConfig_response(cfg.server, is_allowed, did_succeed)
    /\ \E delivered \in BOOLEAN :
         sent' = IF delivered THEN "sent" ELSE "send_failed"
    /\ inFlight' = inFlight - 1
    /\ pc' = "ResponseSent"
    /\ UNCHANGED <<cfgFile, cfg, home, pending, req, is_allowed, did_succeed,
                   resolved, opened, panic>>

Next ==
    \/ GetServer
    \/ Arrive
    \/ Accept
    \/ Authorize
    \/ Resolve
    \/ AssertEq
    \/ Open
    \/ Respond

Spec == Init /\ [][Next]_vars

(***************************************************************************)
(* The pattern gate on its own: a request has just been received by a      *)
(* server whose configuration file holds any origin policy and any         *)
(* blacklist and whitelist of up to MaxPatterns patterns.                  *)
(***************************************************************************)
GateSources == {SrcFavicon, SrcPdf, SrcAnchored}

SourceLists == UNION {[1..k -> GateSources] : k \in 0..MaxPatterns}

GateFiles ==
    {[exists |-> TRUE, yaml_ok |-> TRUE,
      doc |-> [DocA EXCEPT !.security.force_loopback = <<f>>,
                           !.security.blacklist = <<b>>,
                           !.security.whitelist = <<w>>]] :
        f \in BOOLEAN, b \in SourceLists, w \in SourceLists}

InitGate ==
    /\ cfgFile \in GateFiles
    /\ cfg = read_config(cfgFile)
    /\ home = TimHome
    /\ pc = "Received"
    /\ req \in Requests
    /\ pending = 0
    /\ inFlight = 1
    /\ is_allowed = FALSE
    /\ did_succeed = <<>>
    /\ resolved = NoResult
    /\ opened = <<>>
    /\ response = NoResponse
    /\ sent = "none"
    /\ panic = ""

NextGate == Authorize

SpecGate == InitGate /\ [][NextGate]_vars

(***************************************************************************)
(* ServerConfig::handle_request on its own: called with any is_allowed,    *)
(* any did_succeed and either close_tab.                                   *)
(***************************************************************************)
ResponseFiles ==
    {[exists |-> TRUE, yaml_ok |-> TRUE, doc |-> d] : d \in {DocA, DocB}}

InitResponse ==
    /\ cfgFile \in ResponseFiles
    /\ cfg = read_config(cfgFile)
    /\ home = TimHome
    /\ pc = "handle_request"
    /\ req \in Requests
    /\ is_allowed \in BOOLEAN
    /\ did_succeed \in {<<>>, <<TRUE>>, <<FALSE>>}
    /\ pending = 0
    /\ inFlight = 1
    /\ resolved = NoResult
    /\ opened = <<>>
    /\ response = NoResponse
    /\ sent = "none"
    /\ panic = ""

HandleRequestCall ==
    /\ pc = "handle_request"
    /\ response' = ServerConfig_response(cfg.server, is_allowed, did_succeed)
    /\ \E delivered \in BOOLEAN :
         sent' = IF delivered THEN "sent" ELSE "send_failed"
    /\ inFlight' = inFlight - 1
    /\ pc' = "ResponseSent"
    /\ UNCHANGED <<cfgFile, cfg, home, pending, req, is_allowed, did_succeed,
                   resolved, opened, panic>>

NextResponse == HandleRequestCall

SpecResponse == InitResponse /\ [][NextResponse]_vars

(***************************************************************************)
(* Properties.                                                             *)
(***************************************************************************)
RemoteIsLoopback(request) == request.remote_addr = <<LoopbackIp>>

\* The security checks of the current request have been made.
Decided == pc \in {"Resolving", "Rejected"}

MatchesAny(list, url) == \E n \in 1..Len(list) : is_match(list[n], url)

CloseTabHtml == "<script>window.close()</script>tab should close now"

\* The base directory: base_path with the home directory substituted,
\* by its canonical components.
BaseDir ==
    Normalize(Components(replace(cfg.system.base_path, HomeToken, home.path)),
              <<>>)

UnderBase(path) == IsPrefix(BaseDir, Components(path))

\* C1: with force_loopback set, a request whose remote address is not a
\* loopback address (or is unknown) is rejected, whatever the blacklist and
\* the whitelist hold and whatever its URL matches.
C1_NonLoopbackRejected ==
    (Decided /\ cfg.security.force_loopback /\ ~RemoteIsLoopback(req))
        => (is_allowed = FALSE /\ pc = "Rejected")

C1_Witness ==
    /\ pc = "Rejected"
    /\ cfg.security.force_loopback
    /\ req.remote_addr = <<LanIp>>
    /\ req.url = UrlTest
    /\ cfg.security.blacklist = <<>>
    /\ cfg.security.whitelist = <<>>

\* C2: when the origin check passes, a request is allowed exactly when its
\* URL matches no blacklist pattern or matches some whitelist pattern; an
\* empty list matches nothing.  With the blacklist /favicon\.ico and the
\* whitelist .*\.pdf: /favicon.ico is rejected, /favicon.ico.pdf and
\* /notes.txt are allowed.
C2_PatternDecision ==
    (Decided /\ (~cfg.security.force_loopback \/ RemoteIsLoopback(req))) =>
        /\ is_allowed = (\/ ~MatchesAny(cfg.security.blacklist, req.url)
                         \/ MatchesAny(cfg.security.whitelist, req.url))
        /\ cfg.security.blacklist = <<>> => is_allowed
        /\ (/\ cfgFile.doc.security.blacklist = << <<SrcFavicon>> >>
            /\ cfgFile.doc.security.whitelist = << <<SrcPdf>> >>) =>
               /\ req.url = UrlFavicon => ~is_allowed
               /\ req.url \in {UrlFaviconPdf, UrlText, UrlTest} => is_allowed

C2_Witness ==
    /\ pc = "Resolving"
    /\ req.url = UrlFaviconPdf
    /\ cfgFile.doc.security.blacklist = << <<SrcPdf, SrcFavicon>> >>
    /\ cfgFile.doc.security.whitelist = << <<SrcPdf, SrcAnchored>> >>
    /\ is_allowed

\* C3: a path that resolution returns lies under the base directory, and
\* so does every path handed to the external process.
C3_ResolvedUnderBase ==
    /\ resolved.ok => UnderBase(resolved.path)
    /\ \A n \in 1..Len(opened) : UnderBase(opened[n])

\* C4: no request ends the server: the only panic is the failure to bind
\* the listener at startup.
C4_NoRequestEndsServer ==
    pc = "panicked" => panic = "get_server_expect"

\* C5: an allowed request whose URL resolves to an existing file under the
\* base directory gets to the external process, whichever file it is, and
\* when that process exits with zero the response is 200 with the
\* tab-closing HTML (close_tab) or "ok".
C5_ExistingFileOpens ==
    (is_allowed /\ resolved.ok /\ UnderBase(resolved.path)) =>
        /\ panic # "assert_eq"
        /\ (pc = "ResponseSent" /\ did_succeed = <<TRUE>>) =>
              /\ response.status = 200
              /\ response.body = IF cfg.server.close_tab
                                 THEN CloseTabHtml ELSE "ok"

\* C6: resolution and the external process are never attempted for a
\* request the security checks reject, and once the outcome is known
\* did_succeed is None exactly when is_allowed is false.
C6_RunOnlyWhenAllowed ==
    /\ pc \in Terminal \cup {"ResponseSent"} =>
          ((did_succeed = <<>>) <=> ~is_allowed)
    /\ (/\ req # NoRequest
        /\ pc # "Received"
        /\ ~Linker_allow_request(cfg, req)) =>
          /\ ~is_allowed
          /\ resolved = NoResult
          /\ opened = <<>>
          /\ pc \in {"Rejected", "ResponseSent"}

C6_Witness ==
    /\ pc = "ResponseSent"
    /\ ~is_allowed
    /\ did_succeed = <<>>
    /\ resolved = NoResult
    /\ opened = <<>>
    /\ response.status = 401

\* C7: the response is the decision table of (is_allowed, did_succeed,
\* close_tab), and its status is 401 exactly when the request was not
\* allowed.
C7_ResponseTable ==
    pc = "ResponseSent" =>
        /\ ~is_allowed =>
              response.body = "does not comply" /\ response.status = 401
        /\ (is_allowed /\ did_succeed = <<TRUE>> /\ cfg.server.close_tab) =>
              /\ response.body = CloseTabHtml
              /\ response.status = 200
              /\ response.content_type = "text/html"
        /\ (is_allowed /\ did_succeed = <<TRUE>> /\ ~cfg.server.close_tab) =>
              response.body = "ok" /\ response.status = 200
        /\ (is_allowed /\ did_succeed \in {<<FALSE>>, <<>>}) =>
              /\ response.body = "failed to start. check logs"
              /\ response.status = 200
        /\ (response.status = 401) <=> ~is_allowed

C7_Witness ==
    /\ pc = "ResponseSent"
    /\ is_allowed
    /\ did_succeed = <<>>
    /\ response.body = "failed to start. check logs"
    /\ response.status = 200

\* The path of the current request cannot be resolved: there is no usable
\* home directory, or nothing exists at the joined path.
Unresolvable ==
    \/ ~home.found
    \/ ~home.utf8
    \/ ~Exists(Normalize(Components(JoinedPath(cfg.system, req.url, home)),
                         <<>>))

\* C8: for an allowed request whose path cannot be resolved, resolution
\* returns an error and no path, the external process is not called,
\* did_succeed is Some(false), and the response is "failed to start. check
\* logs" with status 200.
C8_UnresolvableFails ==
    (is_allowed /\ Unresolvable /\ pc \notin {"Received", "Resolving"}) =>
        /\ pc \in {"ResolveFailed", "ResponseSent"}
        /\ resolved # NoResult
        /\ ~resolved.ok
        /\ resolved.path = <<>>
        /\ opened = <<>>
        /\ did_succeed = <<FALSE>>
        /\ pc = "ResponseSent" =>
              /\ response.body = "failed to start. check logs"
              /\ response.status = 200

C8_Witness ==
    /\ pc = "ResponseSent"
    /\ req.url = UrlMissing
    /\ home = TimHome
    /\ is_allowed
    /\ ~resolved.ok
    /\ opened = <<>>
    /\ response.body = "failed to start. check logs"

\* C9: at most one request is in flight; none is while the loop waits for
\* the next one; and what a finished request left behind is determined by
\* that request, the configuration and the environment alone.
C9_OneRequestAtATime ==
    /\ inFlight \in {0, 1}
    /\ pc \in {"get_server", "listening", "ResponseSent"} => inFlight = 0
    /\ pc = "Received" =>
          /\ is_allowed = FALSE /\ did_succeed = <<>>
          /\ resolved = NoResult /\ opened = <<>>
          /\ response = NoResponse /\ sent = "none"
    /\ pc = "ResponseSent" =>
          /\ is_allowed = Linker_allow_request(cfg, req)
          /\ resolved \in {NoResult,
                           get_absolute_pdf_path(cfg.system, req.url, home)}
          /\ \A n \in 1..Len(opened) : n = 1 /\ opened[n] = resolved.path
          /\ response =
                ServerConfig_response(cfg.server, is_allowed, did_succeed)

C9_Witness ==
    /\ pc = "Opening"
    /\ inFlight = 1
    /\ pending >= 1

\* The pattern sources that are not regular expressions.
BadSources == {SrcUnclosed, SrcDangling}

NoBadSource(srcs) == \A n \in 1..Len(srcs) : srcs[n] \notin BadSources

\* The document names every key of every section, with a port that fits
\* and patterns that compile.
DocComplete(d) ==
    /\ d.security.present /\ d.server.present /\ d.system.present
    /\ d.security.force_loopback # <<>>
    /\ d.security.blacklist # <<>>
    /\ d.security.whitelist # <<>>
    /\ d.server.port # <<>> /\ d.server.addr # <<>>
    /\ d.server.close_tab # <<>>
    /\ d.system.hostname # <<>> /\ d.system.base_path # <<>>
    /\ d.server.port[1] >= 0 /\ d.server.port[1] <= 65535
    /\ NoBadSource(d.security.blacklist[1])
    /\ NoBadSource(d.security.whitelist[1])

CompiledFrom(list, srcs) ==
    /\ Len(list) = Len(srcs)
    /\ \A n \in 1..Len(srcs) : list[n] = Regex_new(srcs[n]).atoms

\* Every field of the configuration is the file's.
AllFromFile(c, d) ==
    /\ c.security.force_loopback = d.security.force_loopback[1]
    /\ CompiledFrom(c.security.blacklist, d.security.blacklist[1])
    /\ CompiledFrom(c.security.whitelist, d.security.whitelist[1])
    /\ c.server.port = d.server.port[1]
    /\ c.server.addr = d.server.addr[1]
    /\ c.server.close_tab = d.server.close_tab[1]
    /\ c.system.hostname = d.system.hostname[1]
    /\ c.system.base_path = d.system.base_path[1]

\* Every field of the configuration is the hard-coded default.
AllDefault(c) ==
    /\ c.security.force_loopback = TRUE
    /\ CompiledFrom(c.security.blacklist, <<SrcFavicon>>)
    /\ CompiledFrom(c.security.whitelist, <<SrcPdf>>)
    /\ c.server.port = 80
    /\ c.server.addr = "0.0.0.0"
    /\ c.server.close_tab = TRUE
    /\ c.system.hostname = "xodo"
    /\ c.system.base_path = DefaultBasePath

\* C10: the configuration is the file's in every field when the file
\* exists, is YAML and is complete, and the default in every field
\* otherwise; with the file missing, a request from a non-loopback address
\* is answered 401 "does not comply".
C10_ConfigAllOrNothing ==
    /\ IF cfgFile.exists /\ cfgFile.yaml_ok /\ DocComplete(cfgFile.doc)
       THEN AllFromFile(cfg, cfgFile.doc)
       ELSE AllDefault(cfg)
    /\ (/\ ~cfgFile.exists
        /\ pc = "ResponseSent"
        /\ ~RemoteIsLoopback(req)) =>
          response.status = 401 /\ response.body = "does not comply"

C10_Witness ==
    /\ ~cfgFile.exists
    /\ AllDefault(cfg)
    /\ pc = "ResponseSent"
    /\ req.remote_addr = <<LanIp>>
    /\ req.url = UrlTest
    /\ response.status = 401
    /\ response.body = "does not comply"

=============================================================================
